---- MODULE Spec2Model ----
(***************************************************************************)
(* The inbox-management pipeline of the email assistant                    *)
(* (src/src/agents/email-assistant.ts) over the mailbox helpers of         *)
(* src/src/google.ts: fetch -> triage -> partition -> drafter -> watchman  *)
(* -> daily briefing.  The language model and the mailbox provider are the *)
(* environment: every reply of the model and every failure of an external  *)
(* call is a nondeterministic choice of the action that makes the call.    *)
(* Beside the pipeline: the model fallback of GeminiClient                  *)
(* (src/src/GeminiClient.ts, specification SpecGemini) and the             *)
(* `run <agent-name>` command of the CLI (src/src/index.ts, SpecCli).       *)
(***************************************************************************)
EXTENDS Integers, Sequences, FiniteSets, TLC

\* ---------------------------------------------------------------- bounds
\* Messages in the mailbox of the small specification.
MaxMsgs == 2
\* Entries (decisions plus interventions) the model returns in a behaviour.
MaxItems == 2
\* External calls that fail in a behaviour.
MaxFaults == 1
\* Runs of the pipeline over the same mailbox (specification SpecRerun).
MaxRuns == 2
\* Messages of a snapshot that the model's replies refer to.
MaxMention == 3
\* Calls of generateWithSystem on one client (specification SpecGemini).
MaxCalls == 2
\* Invocations of the command line (specification SpecCli).
MaxInvocations == 3

\* ------------------------------------------------------ program constants
\* emailMessages.slice(0, 50)
FetchLimit == 50
\* emails.slice(0, 20)
DraftLimit == 20
\* searchEmails(query, 100)
ListLimit == 100

VARIABLES
  pc,              \* position of run() in the pipeline
  thrown,          \* run() rejected (the catch of run rethrows)
  mailbox,         \* provider: sequence of stored messages, in listing order
  userLabels,      \* provider: names of the user labels that exist
  drafts,          \* provider: drafts created so far (all runs)
  runNo,           \* number of the current run
  emails,          \* run(): the snapshot fetched by this run
  pending,         \* performTriage: results / performWatchman: interventions
  idx,             \* index of the running for-loop
  triageResults,   \* run(): what performTriage returned
  importantEmails, \* run(): the Drafter input
  vipEmails,       \* run(): the pinned messages
  draftResults,    \* createDrafts: the draft records
  watchInput,      \* performWatchman: its parameter
  watchmanResults, \* run(): what performWatchman returned
  briefing,        \* printDailyBriefing: the three counts printed
  calls,           \* external calls issued by this run, in order
  faults,          \* external calls that failed so far
  itemsLeft,       \* entries the model may still return
  replyDefect,     \* history: per stage, "llm" (the model call failed), "reply"
                   \* (its reply carried no parseable array) or ""
  errorLog,        \* the error lines this run printed with this.error, in
                   \* order: of each line the method that printed it
  gemini,          \* GeminiClient.generateWithSystem: the call in progress
  cli,             \* index.ts: the `run <agent-name>` command in progress
  stub,            \* the language model when it is a deterministic stub:
                   \* the replies it has given, by prompt
  firstRun         \* history: the outcome of the first of two replayed runs

\* The state of the email assistant's run and of the mailbox provider.
pipelineVars == <<pc, thrown, mailbox, userLabels, drafts, runNo, emails, pending, idx,
                  triageResults, importantEmails, vipEmails, draftResults, watchInput,
                  watchmanResults, briefing, calls, faults, itemsLeft, replyDefect,
                  errorLog>>

vars == <<pipelineVars, gemini, cli, stub, firstRun>>

\* ------------------------------------------------------------- helpers
Min(a, b) == IF a < b THEN a ELSE b

Range(s) == {s[i] : i \in DOMAIN s}

\* Mutant of Slice: nothing is cut off.
SliceAll(s, n) == s

\* Array.prototype.slice(0, n)
Slice(s, n) == SubSeq(s, 1, Min(Len(s), n))

\* All sequences over S of length at most n.
SeqsUpTo(S, n) == UNION {[1..k -> S] : k \in 0..n}

\* One issued external call: who issued it, which operation, on which message
\* (0: none), and whether it succeeded.
Call(by, op, id, ok) == [by |-> by, op |-> op, id |-> id, ok |-> ok]

\* ------------------------------------------------------------- mailbox
\* A stored message.  kind abstracts the sender, subject and body: "jira"
\* (from Jira/Atlassian or "[jira]" in the subject), "gdoc" (from Google Docs
\* or "commented on" in the subject), "notif" (a system notification that
\* matches none of these patterns: the drafting model answers SKIP_DRAFT for
\* it), "allow" (the sender's address or domain is on the configured VIP
\* allow-list), "plain" (any other sender).  For "allow" and "plain" the
\* drafting model answers with a reply body.
Msg(id, th, labels, kind) == [id |-> id, threadId |-> th, labels |-> labels, kind |-> kind]

Profiles ==
  { <<{"INBOX"}, "plain">>, <<{"INBOX", "SENT"}, "plain">>, <<{"INBOX", "DRAFT"}, "plain">>,
    <<{"INBOX"}, "jira">>, <<{"INBOX"}, "gdoc">>, <<{"INBOX"}, "notif">>,
    <<{"INBOX"}, "allow">> }

\* The sender of e is in EMAIL_VIP_SENDERS or its domain in EMAIL_VIP_DOMAINS
\* (the lists are only ever written into the triage prompt).
OnAllowList(e) == e.kind = "allow"

\* Mailboxes of n messages: ids 1..n in listing order; message i opens thread
\* i or belongs to the thread of an earlier message.
Mailboxes(n) ==
  { [i \in 1..n |-> Msg(i, th[i], pr[i][1], pr[i][2])] :
      th \in {t \in [1..n -> 1..n] : \A i \in 1..n : t[i] <= i /\ t[t[i]] = t[i]},
      pr \in [1..n -> Profiles] }


\* ---------------------------------------------------- model replies (text)
\* A reply of the language model is text, modelled as a sequence of tokens:
\* "[" and "]", prose, whitespace, header-like lines, the SKIP_DRAFT word in
\* three spellings, and the JSON values the replies embed.
LB == [t |-> "lb"]
RB == [t |-> "rb"]
W == [t |-> "w"]
WS == [t |-> "ws"]
Hdr == [t |-> "hdr"]
Skip(v) == [t |-> "skip", v |-> v]
Null == [t |-> "null"]
Decision(id, action, labelName) ==
  [t |-> "obj", id |-> id, action |-> action, labelName |-> labelName]
Intervention(action, emailId, threadId) ==
  [t |-> "obj", action |-> action, emailId |-> emailId, threadId |-> threadId]

\* response.match(/\[[\s\S]*\]/): from the first "[" to the last "]" after
\* it, <<>> when there is none.
MatchArray(resp) ==
  LET lbs == {i \in DOMAIN resp : resp[i].t = "lb"}
  IN IF lbs = {} THEN <<>>
     ELSE LET first == CHOOSE i \in lbs : \A j \in lbs : i <= j
              rbs == {i \in DOMAIN resp : resp[i].t = "rb" /\ i > first}
          IN IF rbs = {} THEN <<>>
             ELSE SubSeq(resp, first, CHOOSE i \in rbs : \A j \in rbs : j <= i)

\* JSON.parse of a matched text "[ ... ]": it parses when everything between
\* the outer brackets is a JSON value (replies with nested arrays are not
\* among the modelled replies).
JsonParse(text) ==
  LET inner == SubSeq(text, 2, Len(text) - 1)
  IN [ok |-> \A i \in DOMAIN inner : inner[i].t \in {"obj", "null"}, value |-> inner]

\* Mutant of ParseReply: text that fails to parse is salvaged, keeping the
\* JSON values found between the brackets.
ParseReplySalvage(resp) ==
  LET m == MatchArray(resp)
  IN IF m = <<>> THEN [soft |-> TRUE, value |-> <<>>]
     ELSE [soft |-> FALSE,
           value |-> SelectSeq(m, LAMBDA x : x.t \in {"obj", "null"})]

\* The parse step of performTriage and performWatchman: the parsed array, or
\* "soft" for the soft failure (no match: return []; JSON.parse throws: the
\* outer catch returns []).
ParseReply(resp) ==
  LET m == MatchArray(resp)
  IN IF m = <<>> THEN [soft |-> TRUE, value |-> <<>>]
     ELSE LET p == JsonParse(m)
          IN IF p.ok THEN [soft |-> FALSE, value |-> p.value]
             ELSE [soft |-> TRUE, value |-> <<>>]

\* String.prototype.trim on a token text.
RECURSIVE TrimLeft(_)
TrimLeft(s) == IF s # <<>> /\ Head(s).t = "ws" THEN TrimLeft(Tail(s)) ELSE s
RECURSIVE TrimRight(_)
TrimRight(s) ==
  IF s # <<>> /\ s[Len(s)].t = "ws" THEN TrimRight(SubSeq(s, 1, Len(s) - 1)) ELSE s
Trim(s) == TrimRight(TrimLeft(s))

\* String.prototype.toUpperCase: only the spelling of SKIP_DRAFT matters.
ToUpperCase(s) == [i \in DOMAIN s |-> IF s[i].t = "skip" THEN Skip("upper") ELSE s[i]]

\* Mutant of IsSkipDraft: the comparison is case-sensitive.
IsSkipDraftExactCase(draftBody) == Trim(draftBody) = <<Skip("upper")>>

\* draftBody.trim().toUpperCase() === 'SKIP_DRAFT'
IsSkipDraft(draftBody) == ToUpperCase(Trim(draftBody)) = <<Skip("upper")>>

\* Replies of the model to the draft prompt of a message: for a "notif"
\* message SKIP_DRAFT in some spelling, with or without surrounding
\* whitespace; otherwise a body, which may echo headers, be empty, or mention
\* SKIP_DRAFT among other words.
DraftReplies(e) ==
  IF e.kind = "notif"
  THEN { <<Skip("upper")>>, <<WS, Skip("lower"), WS>>, <<Skip("mixed"), WS>> }
  ELSE { <<W>>, <<Hdr, W>>, <<>>, <<Skip("upper"), W>>, <<W, WS, Skip("lower")>> }

\* Ids the model can mention for a list of messages: those of its first
\* MaxMention messages, and 0 for an id (or thread id) that is absent or
\* belongs to no message of the list.
MentionIds(es) == {0} \cup {es[i].id : i \in DOMAIN es \cap 1..MaxMention}
MentionThreads(es) == {0} \cup {es[i].threadId : i \in DOMAIN es \cap 1..MaxMention}

\* labelName of a label decision: absent, or the name the prompt suggests.
LabelNameChoices == {"", "Low Priority"}

DecisionElems(es) ==
  {Decision(id, a, "") : id \in MentionIds(es), a \in {"archive", "vip", "important"}}
    \cup {Decision(id, "label", n) : id \in MentionIds(es), n \in LabelNameChoices}
    \cup {Null}

\* The prompt asks for an email id or thread id with every issue: a nudge
\* or flag refers to the first message of the list (when there is one); an
\* entry with an action outside the three of the prompt refers to none.
InterventionElems(es) ==
  {Intervention(a, IF es = <<>> THEN 0 ELSE es[1].id,
                   IF es = <<>> THEN 0 ELSE es[1].threadId) : a \in {"nudge", "flag"}}
    \cup {Intervention("other", 0, 0)}
    \cup {Intervention("draft-request", id, th) :
            id \in MentionIds(es), th \in MentionThreads(es)}
    \cup {Null}

\* Replies that carry the array xs: bare, or inside prose.
Carrying(xs) == {<<LB>> \o xs \o <<RB>>, <<W, LB>> \o xs \o <<RB, W>>}

\* Replies that carry no parseable array: prose, nothing, an unclosed array,
\* brackets in the wrong order, prose inside the brackets, and an array
\* followed by prose with a "]" (the greedy match runs to the last "]").
Unparseable(x) ==
  { <<W>>, <<>>, <<LB, x>>, <<RB, W, LB>>, <<LB, W, RB>>, <<LB, x, RB, W, RB>> }

Replies(elems, n) ==
  UNION {Carrying(xs) : xs \in SeqsUpTo(elems, n)}
    \cup Unparseable(CHOOSE x \in elems : x.t = "obj")


\* ------------------------------------------------------ mailbox helpers
\* String.prototype.toLowerCase on the label names the model uses.
ToLowerCase(n) ==
  CASE n = "VIP" -> "vip"
    [] n = "Low Priority" -> "low priority"
    [] OTHER -> n

\* Mutant of archiveEmail: the message is moved to the trash.
archiveEmailTrash(mb, id) == [mb EXCEPT ![id].labels = (@ \ {"INBOX"}) \cup {"TRASH"}]

\* archiveEmail: messages.modify removeLabelIds ['INBOX'].
archiveEmail(mb, id) == [mb EXCEPT ![id].labels = @ \ {"INBOX"}]

\* labelEmail: messages.modify addLabelIds [labelId].
labelEmail(mb, id, labelId) == [mb EXCEPT ![id].labels = @ \cup {labelId}]

\* Mutant of existingLabel: the names are compared as they are written.
existingLabelExactCase(labs, labelName) ==
  LET hits == {i \in DOMAIN labs : labs[i] = labelName}
  IN IF hits = {} THEN "" ELSE labs[CHOOSE i \in hits : \A j \in hits : i <= j]

\* getOrCreateLabel, the lookup: the first existing label whose name equals
\* labelName ignoring case, "" when there is none.  A label's id is modelled
\* by the name it was created with.
existingLabel(labs, labelName) ==
  LET hits == {i \in DOMAIN labs : ToLowerCase(labs[i]) = ToLowerCase(labelName)}
  IN IF hits = {} THEN "" ELSE labs[CHOOSE i \in hits : \A j \in hits : i <= j]

\* Mutant of createDraft: a second draft by the same stage in a thread is
\* not created.
createDraftOncePerThread(ds, mb, id, threadId, by, run) ==
  IF \E i \in DOMAIN ds :
       ds[i].threadId = mb[id].threadId /\ ds[i].by = by /\ ds[i].run = run
  THEN ds
  ELSE Append(ds, [replyTo |-> id, threadId |-> mb[id].threadId, by |-> by, run |-> run])

\* createDraft: drafts.create of a reply to message id of the mailbox; the
\* draft's thread is the thread passed, replaced by the original message's
\* own thread.  Only the drafts collection changes: no stored message's
\* labels do.
createDraft(ds, mb, id, threadId, by, run) ==
  Append(ds, [replyTo |-> id, threadId |-> mb[id].threadId, by |-> by, run |-> run])

\* Mutant of FindById: an id that matches no message is taken as the id of
\* the first message.
FindByIdOrFirst(es, id) ==
  LET hits == {i \in DOMAIN es : es[i].id = id}
  IN IF hits = {} THEN 1 ELSE CHOOSE i \in hits : \A j \in hits : i <= j

\* emails.find((e) => e.id === id): the index of the first match, 0 if none.
FindById(es, id) ==
  LET hits == {i \in DOMAIN es : es[i].id = id}
  IN IF hits = {} THEN 0 ELSE CHOOSE i \in hits : \A j \in hits : i <= j

\* Subsets of S with at most k elements.
RECURSIVE SubsetsUpTo(_, _)
SubsetsUpTo(S, k) ==
  IF k = 0 THEN {{}}
  ELSE LET P == SubsetsUpTo(S, k - 1) IN P \cup {p \cup {x} : p \in P, x \in S}

\* ------------------------------------------------------------ pipeline
\* Mutant of Pipeline: the Watchman is run before the Drafter.
PipelineWatchFirst ==
  <<"fetch", "triage", "partition", "watch", "draft", "render", "done">>

\* run(), lines 58-123: the stages in the order run() awaits them.
Pipeline == <<"fetch", "triage", "partition", "draft", "watch", "render", "done">>

StageAfter(stage) == Pipeline[(CHOOSE i \in DOMAIN Pipeline : Pipeline[i] = stage) + 1]

\* What is wrong with a reply as the carrier of a JSON array: "reply" when
\* no "[" is followed by a "]", or when the text from the first "[" to the
\* last "]" is not an array of JSON values; "" when it is one.
ReplyDefect(resp) ==
  IF ~\E i, j \in DOMAIN resp : i < j /\ resp[i].t = "lb" /\ resp[j].t = "rb"
  THEN "reply"
  ELSE LET i == CHOOSE a \in DOMAIN resp :
                  resp[a].t = "lb" /\ \A b \in 1..(a - 1) : resp[b].t # "lb"
           j == CHOOSE a \in DOMAIN resp :
                  resp[a].t = "rb" /\ \A b \in (a + 1)..Len(resp) : resp[b].t # "rb"
       IN IF \A k \in (i + 1)..(j - 1) : resp[k].t \in {"obj", "null"}
          THEN "" ELSE "reply"

\* What the parse step of method by logs for a reply: one error line, from
\* the `if (!jsonMatch)` branch when nothing matches and from the outer catch
\* when JSON.parse throws; nothing when the array parses.
LoggedOnReply(resp, by) ==
  IF MatchArray(resp) = <<>> THEN <<by>>
  ELSE IF ~JsonParse(MatchArray(resp)).ok THEN <<by>> ELSE <<>>

\* ---------------------------------------------------------- GeminiClient
\* Values of the environment variable GEMINI_MODEL: "" when it is unset, a
\* name of the built-in list, or another name.
GeminiModelEnv ==
  {"", "gemini-flash-latest", "gemini-pro-latest", "gemini-2.5-flash",
   "gemini-2.5-pro", "gemini-2.0-flash", "custom-model"}

\* Messages of the errors an attempt can fail with.
GeminiErrors == {"quota exceeded", "model not found"}

\* process.env.GEMINI_MODEL || 'gemini-flash-latest'
requestedModel(env) == IF env = "" THEN "gemini-flash-latest" ELSE env

\* arr.indexOf(m)
IndexOf(arr, m) == CHOOSE i \in DOMAIN arr : arr[i] = m /\ \A j \in 1..(i - 1) : arr[j] # m

\* arr.filter((m, i, arr) => arr.indexOf(m) === i)
RECURSIVE KeepFirst(_, _)
KeepFirst(arr, n) ==
  IF n = 0 THEN <<>>
  ELSE IF IndexOf(arr, arr[n]) = n THEN Append(KeepFirst(arr, n - 1), arr[n])
       ELSE KeepFirst(arr, n - 1)

\* The candidate list before the filter.
modelsListed(env) ==
  <<requestedModel(env), "gemini-flash-latest", "gemini-pro-latest",
    "gemini-2.5-flash", "gemini-2.5-pro", "gemini-2.0-flash">>

\* Mutant of modelsToTry: duplicates are not removed.
modelsToTryUnfiltered(env) == modelsListed(env)

\* generateWithSystem, lines 44-54
modelsToTry(env) == KeepFirst(modelsListed(env), Len(modelsListed(env)))

\* The client before a call: env is the value of GEMINI_MODEL; callsMade
\* counts the calls of generateWithSystem; attempts is the history of the
\* current call's attempts.
GeminiIdle(env) ==
  [pc |-> "idle", env |-> env, at |-> 1, attempts |-> <<>>, lastError |-> "null",
   result |-> "", message |-> "", callsMade |-> 0]

\* ------------------------------------------------------------------ CLI
\* index.ts, lines 13-16: the registry.
agents == {"hubspot-reviewer"}

\* Names given on the command line: the agents of the README and a name
\* that is no agent's.
AgentNames ==
  {"calendar-assistant", "email-assistant", "customer-intelligence",
   "hubspot-reviewer", "no-such-agent"}

\* The process before the action of `run <agent-name>`: exitCode -1 while the
\* process has not exited; log is the history of the finished invocations.
CliStart ==
  [pc |-> "start", agentName |-> "", constructed |-> <<>>, ran |-> <<>>,
   printed |-> <<>>, exitCode |-> -1, log |-> <<>>]

\* ------------------------------------------------------------ model stub
\* The language model is live: its replies are not recorded.
StubOff == [on |-> FALSE, learns |-> FALSE, said |-> <<>>]

\* A deterministic stub in place of the model: said is the list of its
\* replies, each with the stage and the messages of its prompt.  A stub that
\* learns keeps the reply to every new prompt and gives it again; one that
\* does not passes the prompts it has no reply for to the live model.
StubOn == [on |-> TRUE, learns |-> TRUE, said |-> <<>>]

\* The replies the model can give to a prompt: any of the candidates, or,
\* for a stub that has answered this prompt before, the same reply again.
StubAnswers(stage, input, candidates) ==
  LET heard == {i \in DOMAIN stub.said :
                  stub.said[i].stage = stage /\ stub.said[i].input = input}
  IN IF stub.on /\ heard # {}
     THEN {stub.said[CHOOSE i \in heard : TRUE].reply}
     ELSE candidates

\* The stub after it gave reply to a prompt.
StubHears(stage, input, reply) ==
  IF stub.on /\ stub.learns /\ ~\E i \in DOMAIN stub.said :
                   stub.said[i].stage = stage /\ stub.said[i].input = input
  THEN [stub EXCEPT !.said = Append(@, [stage |-> stage, input |-> input, reply |-> reply])]
  ELSE stub

\* Outside the pipeline nothing is in progress.
OutsideIdle ==
  /\ gemini = GeminiIdle("")
  /\ cli = CliStart
  /\ stub = StubOff
  /\ firstRun = <<>>

\* ---------------------------------------------------------------- Init
RunInit ==
  /\ pc = "fetch"
  /\ thrown = FALSE
  /\ emails = <<>>
  /\ pending = <<>>
  /\ idx = 1
  /\ triageResults = <<>>
  /\ importantEmails = <<>>
  /\ vipEmails = <<>>
  /\ draftResults = <<>>
  /\ watchInput = <<>>
  /\ watchmanResults = <<>>
  /\ briefing = <<>>
  /\ calls = <<>>
  /\ replyDefect = [triage |-> "", watchman |-> ""]
  /\ errorLog = <<>>

Init ==
  /\ RunInit
  /\ faults = 0
  /\ itemsLeft = MaxItems
  /\ mailbox \in UNION {Mailboxes(n) : n \in 0..MaxMsgs}
  /\ userLabels = <<>>
  /\ drafts = <<>>
  /\ runNo = 1
  /\ OutsideIdle

\* A failure may be injected while the run's budget lasts.
MayFail == faults < MaxFaults

\* --------------------------------------------------------------- fetch
\* run(), lines 58-101: searchEmails, then getEmailContent for each of the
\* first 50 listed messages; a message whose fetch fails is left out.
FetchListFails ==
  /\ pc = "fetch"
  /\ MayFail
  /\ faults' = faults + 1
  /\ calls' = Append(calls, Call("fetch", "list", 0, FALSE))
  /\ pc' = "aborted"
  /\ thrown' = TRUE
  /\ UNCHANGED <<replyDefect, itemsLeft, mailbox, userLabels, drafts, runNo, emails, pending, idx,
                 triageResults, importantEmails, vipEmails, draftResults,
                 watchInput, watchmanResults, briefing>>
  /\ errorLog' = Append(errorLog, "run")
  /\ UNCHANGED <<gemini, cli, stub, firstRun>>

\* Mutant of AfterFetch: the run goes on to triage with an empty snapshot.
AfterFetchAlwaysTriage(got) == StageAfter("fetch")

\* run(), lines 67-70 and 98-101: with no listed message, or none fetched,
\* run() returns; otherwise it goes on to triage.
AfterFetch(got) == IF got = <<>> THEN "done" ELSE StageAfter("fetch")

Fetch ==
  /\ pc = "fetch"
  /\ LET emailMessages == Slice(mailbox, ListLimit)
         head == Slice(emailMessages, FetchLimit)
     IN \E failed \in SubsetsUpTo(DOMAIN head, MaxFaults - faults) :
          LET got == SelectSeq(head, LAMBDA m : m.id \notin {head[i].id : i \in failed})
          IN /\ faults' = faults + Cardinality(failed)
             /\ calls' = calls \o <<Call("fetch", "list", 0, TRUE)>>
                           \o [i \in DOMAIN head |->
                                 Call("fetch", "get", head[i].id, i \notin failed)]
             /\ emails' = got
             /\ pc' = AfterFetch(got)
  /\ UNCHANGED <<replyDefect, itemsLeft, thrown, mailbox, userLabels, drafts, runNo, pending, idx,
                 triageResults, importantEmails, vipEmails, draftResults,
                 watchInput, watchmanResults, briefing>>
  /\ errorLog' = errorLog \o [k \in 1..(faults' - faults) |-> "run"]
  /\ UNCHANGED <<gemini, cli, stub, firstRun>>

\* -------------------------------------------------------------- triage
\* performTriage, lines 141-154 and 183-186: one model call, the parse, and
\* the soft failures.
TriageCallFails ==
  /\ pc = "triage"
  /\ MayFail
  /\ faults' = faults + 1
  /\ calls' = Append(calls, Call("triage", "llm", 0, FALSE))
  /\ replyDefect' = [replyDefect EXCEPT !.triage = "llm"]
  /\ triageResults' = <<>>
  /\ pc' = StageAfter("triage")
  /\ UNCHANGED <<itemsLeft, thrown, mailbox, userLabels, drafts, runNo, emails, pending, idx,
                 importantEmails, vipEmails, draftResults, watchInput,
                 watchmanResults, briefing>>
  /\ errorLog' = Append(errorLog, "performTriage")
  /\ UNCHANGED <<gemini, cli, stub, firstRun>>

TriageCall ==
  /\ pc = "triage"
  /\ calls' = Append(calls, Call("triage", "llm", 0, TRUE))
  /\ \E response \in StubAnswers("triage", emails,
                                  Replies(DecisionElems(emails), itemsLeft)) :
       LET p == ParseReply(response)
       IN /\ replyDefect' = [replyDefect EXCEPT !.triage = ReplyDefect(response)]
          /\ errorLog' = errorLog \o
               LoggedOnReply(response, "performTriage")
          /\ stub' = StubHears("triage", emails, response)
          /\ IF p.soft \/ p.value = <<>>
             THEN /\ triageResults' = <<>>
                  /\ pc' = StageAfter("triage")
                  /\ UNCHANGED <<pending, idx, itemsLeft>>
             ELSE /\ pending' = p.value
                  /\ idx' = 1
                  /\ pc' = "applying"
                  /\ itemsLeft' = itemsLeft - Len(p.value)
                  /\ UNCHANGED triageResults
  /\ UNCHANGED <<thrown, mailbox, userLabels, drafts, runNo, emails,
                 importantEmails, vipEmails, draftResults, watchInput,
                 watchmanResults, briefing, faults>>
  /\ UNCHANGED <<gemini, cli, firstRun>>

\* Mutant of TriageAdvance: a failed action ends the loop, and triage returns
\* the empty list.
TriageAdvanceStopOnError ==
  IF faults' > faults \/ idx = Len(pending)
  THEN /\ triageResults' = IF faults' > faults THEN <<>> ELSE pending
       /\ pc' = StageAfter("triage")
       /\ idx' = 1
       /\ pending' = <<>>
  ELSE /\ idx' = idx + 1
       /\ UNCHANGED <<triageResults, pc, pending>>

\* The end of one iteration of the for-loop of performTriage: the next
\* result, or `return results` after the last.
TriageAdvance ==
  IF idx = Len(pending)
  THEN /\ triageResults' = pending
       /\ pc' = StageAfter("triage")
       /\ idx' = 1
       /\ pending' = <<>>
  ELSE /\ idx' = idx + 1
       /\ UNCHANGED <<triageResults, pc, pending>>

\* The label branch: getOrCreateLabel(labelName) (labels.list, then
\* labels.create when no label matches) and labelEmail.  failAt names the
\* call that throws: "" none, "list", "create", "modify".
ApplyLabel(id, labelName, failAt) ==
  LET found == existingLabel(userLabels, labelName)
      labelId == IF found = "" THEN labelName ELSE found
      listed == <<Call("triage", "labels.list", 0, failAt # "list")>>
      created == IF found = "" /\ failAt # "list"
                 THEN <<Call("triage", "labels.create", 0, failAt # "create")>>
                 ELSE <<>>
      applied == IF failAt \in {"", "modify"}
                 THEN <<Call("triage", "label", id, failAt = "")>>
                 ELSE <<>>
  IN /\ failAt = "create" => found = ""
     /\ calls' = calls \o listed \o created \o applied
     /\ userLabels' = IF found = "" /\ failAt \in {"", "modify"}
                      THEN Append(userLabels, labelName) ELSE userLabels
     /\ mailbox' = IF failAt = "" THEN labelEmail(mailbox, id, labelId) ELSE mailbox

\* performTriage, lines 156-182: one triage result.
TriageApply ==
  /\ pc = "applying"
  /\ LET result == pending[idx]
     IN IF result.t = "null"
        THEN \* result.id throws outside the inner try: the outer catch returns []
             /\ triageResults' = <<>>
             /\ pc' = StageAfter("triage")
             /\ idx' = 1
             /\ pending' = <<>>
             /\ UNCHANGED <<mailbox, userLabels, calls, faults>>
        ELSE IF FindById(emails, result.id) = 0
        THEN /\ UNCHANGED <<mailbox, userLabels, calls, faults>>
             /\ TriageAdvance
        ELSE /\ CASE result.action = "archive" ->
                       \E ok \in BOOLEAN :
                         /\ ok \/ MayFail
                         /\ faults' = IF ok THEN faults ELSE faults + 1
                         /\ calls' = Append(calls, Call("triage", "archive", result.id, ok))
                         /\ mailbox' = IF ok THEN archiveEmail(mailbox, result.id)
                                       ELSE mailbox
                         /\ UNCHANGED userLabels
                  [] result.action \in {"label", "vip"} ->
                       \E failAt \in {"", "list", "create", "modify"} :
                         /\ failAt = "" \/ MayFail
                         /\ faults' = IF failAt = "" THEN faults ELSE faults + 1
                         /\ ApplyLabel(result.id,
                                       IF result.action = "vip" THEN "VIP"
                                       ELSE IF result.labelName = "" THEN "Low Priority"
                                       ELSE result.labelName,
                                       failAt)
                  [] OTHER -> UNCHANGED <<mailbox, userLabels, calls, faults>>
             /\ TriageAdvance
  /\ UNCHANGED <<replyDefect, itemsLeft, thrown, drafts, runNo, emails, importantEmails, vipEmails,
                 draftResults, watchInput, watchmanResults, briefing>>
  /\ errorLog' = IF pending[idx].t = "null" \/ faults' > faults
                  THEN Append(errorLog, "performTriage")
                  ELSE errorLog
  /\ UNCHANGED <<gemini, cli, stub, firstRun>>


\* ----------------------------------------------------------- partition
\* Mutant of ImportantEmails: only archived messages are left out.
ImportantEmailsArchiveOnly(es, rs) ==
  SelectSeq(es, LAMBDA e :
    ~\E k \in DOMAIN rs : rs[k].id = e.id /\ rs[k].action = "archive")

\* run(), lines 109-111: the messages with no archive or label result.
ImportantEmails(es, rs) ==
  SelectSeq(es, LAMBDA e :
    ~\E k \in DOMAIN rs : rs[k].id = e.id /\ rs[k].action \in {"archive", "label"})

\* Mutant of VipEmails: the messages with an important result are pinned.
VipEmailsImportant(es, rs) ==
  SelectSeq(es, LAMBDA e : \E k \in DOMAIN rs : rs[k].id = e.id /\ rs[k].action = "important")

\* run(), lines 116-118: the messages with a vip result.
VipEmails(es, rs) ==
  SelectSeq(es, LAMBDA e : \E k \in DOMAIN rs : rs[k].id = e.id /\ rs[k].action = "vip")

\* run(), line 119: [...importantEmails, ...vipEmails]
WatchmanInput(imp, vip) == imp \o vip

Partition ==
  /\ pc = "partition"
  /\ importantEmails' = ImportantEmails(emails, triageResults)
  /\ idx' = 1
  /\ pc' = StageAfter("partition")
  /\ UNCHANGED <<replyDefect, itemsLeft, thrown, mailbox, userLabels, drafts, runNo, emails, pending,
                 triageResults, vipEmails, draftResults, watchInput,
                 watchmanResults, briefing, calls, faults>>
  /\ UNCHANGED errorLog
  /\ UNCHANGED <<gemini, cli, stub, firstRun>>

\* ------------------------------------------------------------- drafter
\* Mutant of DraftBatch: the Drafter only works in the first run of a mailbox.
DraftBatchFirstRunOnly(es) == IF runNo > 1 THEN <<>> ELSE Slice(es, DraftLimit)

\* Mutant of DraftBatch: after a failed call of the Drafter the rest of the
\* batch is given up.
DraftBatchStopAfterFailure(es) ==
  IF \E k \in DOMAIN calls : calls[k].by = "drafter" /\ ~calls[k].ok
  THEN <<>> ELSE Slice(es, DraftLimit)

\* Mutant of DraftBatch: the batch is not cut.
DraftBatchUncut(es) == es

\* Mutant of HasTerminalLabel: a message that carries the VIP label in the
\* mailbox counts as handled.
HasTerminalLabelOrPinned(e) ==
  "SENT" \in e.labels \/ "DRAFT" \in e.labels \/ "VIP" \in mailbox[e.id].labels

\* Mutant of HasTerminalLabel: only SENT is checked.
HasTerminalLabelSentOnly(e) == "SENT" \in e.labels

\* createDrafts, line 194: emails.slice(0, 20)
DraftBatch(es) == Slice(es, DraftLimit)

\* createDrafts, line 197
HasTerminalLabel(e) == "SENT" \in e.labels \/ "DRAFT" \in e.labels

\* createDrafts, lines 202-209: isJira || isGoogleDoc
IsSystemNotification(e) == e.kind \in {"jira", "gdoc"}

\* createDrafts, lines 194-254: one message of the batch.  failAt names the
\* call that throws (caught at line 251): "" none, "llm", "get" (the header
\* fetch), "draft.get" (createDraft's fetch of the original), "draft.create".
DraftOne ==
  /\ pc = "draft"
  /\ idx <= Len(DraftBatch(importantEmails))
  /\ idx' = idx + 1
  /\ LET email == DraftBatch(importantEmails)[idx]
         by(op, ok) == Call("drafter", op, email.id, ok)
     IN IF HasTerminalLabel(email) \/ IsSystemNotification(email)
        THEN UNCHANGED <<drafts, draftResults, calls, faults, stub>>
        ELSE \E failAt \in {"", "llm", "get", "draft.get", "draft.create"} :
               /\ failAt = "" \/ MayFail
               /\ IF failAt = "llm"
                  THEN /\ calls' = Append(calls, by("llm", FALSE))
                       /\ faults' = faults + 1
                       /\ UNCHANGED <<drafts, draftResults, stub>>
                  ELSE \E draftBody \in StubAnswers("drafter", <<email>>, DraftReplies(email)) :
                         /\ stub' = StubHears("drafter", <<email>>, draftBody)
                         /\ IF IsSkipDraft(draftBody)
                            THEN /\ failAt = ""
                                 /\ calls' = Append(calls, by("llm", TRUE))
                                 /\ UNCHANGED <<drafts, draftResults, faults>>
                            ELSE /\ faults' = IF failAt = "" THEN faults ELSE faults + 1
                                 /\ calls' = calls \o <<by("llm", TRUE)>>
                                      \o <<by("get", failAt # "get")>>
                                      \o (IF failAt = "get" THEN <<>>
                                          ELSE <<by("get", failAt # "draft.get")>>)
                                      \o (IF failAt \in {"get", "draft.get"} THEN <<>>
                                          ELSE <<by("draft.create", failAt = "")>>)
                                 /\ IF failAt = ""
                                    THEN /\ drafts' = createDraft(drafts, mailbox, email.id,
                                                                  email.threadId, "drafter", runNo)
                                         /\ draftResults' =
                                              Append(draftResults,
                                                     [emailId |-> email.id, draftId |-> Len(drafts) + 1])
                                    ELSE UNCHANGED <<drafts, draftResults>>
  /\ UNCHANGED <<replyDefect, itemsLeft, pc, thrown, mailbox, userLabels, runNo, emails, pending,
                 triageResults, importantEmails, vipEmails, watchInput,
                 watchmanResults, briefing>>
  /\ errorLog' = IF faults' > faults
                  THEN Append(errorLog, "createDrafts") ELSE errorLog
  /\ UNCHANGED <<gemini, cli, firstRun>>

\* createDrafts returns (line 256); run() computes vipEmails and the
\* Watchman's argument (lines 116-119).
DraftsReturn ==
  /\ pc = "draft"
  /\ idx > Len(DraftBatch(importantEmails))
  /\ vipEmails' = VipEmails(emails, triageResults)
  /\ watchInput' = WatchmanInput(importantEmails, VipEmails(emails, triageResults))
  /\ idx' = 1
  /\ pc' = StageAfter("draft")
  /\ UNCHANGED <<replyDefect, itemsLeft, thrown, mailbox, userLabels, drafts, runNo, emails, pending,
                 triageResults, importantEmails, draftResults, watchmanResults,
                 briefing, calls, faults>>
  /\ UNCHANGED errorLog
  /\ UNCHANGED <<gemini, cli, stub, firstRun>>

\* ------------------------------------------------------------ watchman
\* performWatchman, line 267: getCalendarEvents is awaited outside the try,
\* so its failure rejects performWatchman, and run() logs and rethrows.
WatchCalendarFails ==
  /\ pc = "watch"
  /\ MayFail
  /\ faults' = faults + 1
  /\ calls' = Append(calls, Call("watchman", "calendar", 0, FALSE))
  /\ pc' = "aborted"
  /\ thrown' = TRUE
  /\ UNCHANGED <<replyDefect, itemsLeft, mailbox, userLabels, drafts, runNo, emails, pending, idx,
                 triageResults, importantEmails, vipEmails, draftResults,
                 watchInput, watchmanResults, briefing>>
  /\ errorLog' = Append(errorLog, "run")
  /\ UNCHANGED <<gemini, cli, stub, firstRun>>

\* performWatchman, lines 276-277 and 323-326: the model call fails.
WatchCallFails ==
  /\ pc = "watch"
  /\ MayFail
  /\ faults' = faults + 1
  /\ calls' = calls \o <<Call("watchman", "calendar", 0, TRUE),
                         Call("watchman", "llm", 0, FALSE)>>
  /\ replyDefect' = [replyDefect EXCEPT !.watchman = "llm"]
  /\ watchmanResults' = <<>>
  /\ pc' = StageAfter("watch")
  /\ UNCHANGED <<itemsLeft, thrown, mailbox, userLabels, drafts, runNo, emails, pending, idx,
                 triageResults, importantEmails, vipEmails, draftResults,
                 watchInput, briefing>>
  /\ errorLog' = Append(errorLog, "performWatchman")
  /\ UNCHANGED <<gemini, cli, stub, firstRun>>

\* performWatchman, lines 267-287: calendar fetch, one model call, the parse.
WatchCall ==
  /\ pc = "watch"
  /\ calls' = calls \o <<Call("watchman", "calendar", 0, TRUE),
                         Call("watchman", "llm", 0, TRUE)>>
  /\ \E response \in StubAnswers("watchman", watchInput,
                                  Replies(InterventionElems(watchInput), itemsLeft)) :
       LET p == ParseReply(response)
       IN /\ replyDefect' = [replyDefect EXCEPT !.watchman = ReplyDefect(response)]
          /\ errorLog' = errorLog \o
               LoggedOnReply(response, "performWatchman")
          /\ stub' = StubHears("watchman", watchInput, response)
          /\ IF p.soft \/ p.value = <<>>
             THEN /\ watchmanResults' = <<>>
                  /\ pc' = StageAfter("watch")
                  /\ UNCHANGED <<pending, idx, itemsLeft>>
             ELSE /\ pending' = p.value
                  /\ idx' = 1
                  /\ pc' = "watching"
                  /\ itemsLeft' = itemsLeft - Len(p.value)
                  /\ UNCHANGED watchmanResults
  /\ UNCHANGED <<thrown, mailbox, userLabels, drafts, runNo, emails,
                 triageResults, importantEmails, vipEmails, draftResults,
                 watchInput, briefing, faults>>
  /\ UNCHANGED <<gemini, cli, firstRun>>

\* performWatchman, lines 296-298: importantEmails.find((e) =>
\* e.id === intervention.emailId || e.threadId === intervention.threadId);
\* the index of the first match, 0 if none.
ResolveIntervention(es, intervention) ==
  LET hits == {i \in DOMAIN es : \/ es[i].id = intervention.emailId
                                 \/ es[i].threadId = intervention.threadId}
  IN IF hits = {} THEN 0 ELSE CHOOSE i \in hits : \A j \in hits : i <= j

\* Mutant of IsDraftRequest: a nudge is handled as a draft-request.
IsDraftRequestOrNudge(intervention) == intervention.action \in {"draft-request", "nudge"}

\* performWatchman, line 294: intervention.action === 'draft-request'
IsDraftRequest(intervention) == intervention.action = "draft-request"

\* performWatchman, lines 290-322: one intervention.  A null entry throws
\* inside the inner try and is skipped.  failAt as in DraftOne.
WatchApply ==
  /\ pc = "watching"
  /\ IF idx = Len(pending)
     THEN /\ watchmanResults' = pending
          /\ pc' = StageAfter("watch")
          /\ idx' = 1
          /\ pending' = <<>>
     ELSE /\ idx' = idx + 1
          /\ UNCHANGED <<watchmanResults, pc, pending>>
  /\ LET intervention == pending[idx]
         at == IF intervention.t = "obj" /\ IsDraftRequest(intervention)
               THEN ResolveIntervention(watchInput, intervention) ELSE 0
     IN IF at = 0
        THEN UNCHANGED <<drafts, calls, faults>>
        ELSE LET email == watchInput[at]
                 by(op, ok) == Call("watchman", op, email.id, ok)
             IN \E failAt \in {"", "get", "draft.get", "draft.create"} :
                  /\ failAt = "" \/ MayFail
                  /\ faults' = IF failAt = "" THEN faults ELSE faults + 1
                  /\ calls' = calls \o <<by("get", failAt # "get")>>
                       \o (IF failAt = "get" THEN <<>>
                           ELSE <<by("get", failAt # "draft.get")>>)
                       \o (IF failAt \in {"get", "draft.get"} THEN <<>>
                           ELSE <<by("draft.create", failAt = "")>>)
                  /\ drafts' = IF failAt = ""
                               THEN createDraft(drafts, mailbox, email.id,
                                                email.threadId, "watchman", runNo)
                               ELSE drafts
  /\ UNCHANGED <<replyDefect, itemsLeft, thrown, mailbox, userLabels, runNo, emails, triageResults,
                 importantEmails, vipEmails, draftResults, watchInput, briefing>>
  /\ errorLog' = IF pending[idx].t = "null" \/ faults' > faults
                  THEN Append(errorLog, "performWatchman")
                  ELSE errorLog
  /\ UNCHANGED <<gemini, cli, stub, firstRun>>

\* ------------------------------------------------------------- briefing
\* printDailyBriefing, lines 329-373: the pinned messages shown (at most 10),
\* the drafts and the interventions listed.  It reads intervention.type of
\* every entry, which throws on a null entry; run() then logs and rethrows.
Render ==
  /\ pc = "render"
  /\ IF \E i \in DOMAIN watchmanResults : watchmanResults[i].t = "null"
     THEN /\ pc' = "aborted"
          /\ thrown' = TRUE
          /\ UNCHANGED briefing
     ELSE /\ pc' = StageAfter("render")
          /\ briefing' = <<[pinned |-> Len(Slice(vipEmails, 10)),
                            drafts |-> Len(draftResults),
                            interventions |-> Len(watchmanResults)]>>
          /\ UNCHANGED thrown
  /\ UNCHANGED <<replyDefect, itemsLeft, mailbox, userLabels, drafts, runNo, emails, pending, idx,
                 triageResults, importantEmails, vipEmails, draftResults,
                 watchInput, watchmanResults, calls, faults>>
  /\ errorLog' = IF thrown' THEN Append(errorLog, "run")
                  ELSE errorLog
  /\ UNCHANGED <<gemini, cli, stub, firstRun>>

\* ---------------------------------------------------------------- Spec
Next ==
  \/ FetchListFails
  \/ Fetch
  \/ TriageCallFails
  \/ TriageCall
  \/ TriageApply
  \/ Partition
  \/ DraftOne
  \/ DraftsReturn
  \/ WatchCalendarFails
  \/ WatchCallFails
  \/ WatchCall
  \/ WatchApply
  \/ Render

Spec == Init /\ [][Next]_vars


\* A later run over the resulting mailbox: the provider's state stays, the
\* run's own state starts afresh.
NextRun ==
  /\ pc \in {"done", "aborted"}
  /\ runNo < MaxRuns
  /\ runNo' = runNo + 1
  /\ pc' = "fetch"
  /\ thrown' = FALSE
  /\ emails' = <<>>
  /\ pending' = <<>>
  /\ idx' = 1
  /\ triageResults' = <<>>
  /\ importantEmails' = <<>>
  /\ vipEmails' = <<>>
  /\ draftResults' = <<>>
  /\ watchInput' = <<>>
  /\ watchmanResults' = <<>>
  /\ briefing' = <<>>
  /\ calls' = <<>>
  /\ replyDefect' = [triage |-> "", watchman |-> ""]
  /\ errorLog' = <<>>
  /\ UNCHANGED <<mailbox, userLabels, drafts, faults, itemsLeft>>
  /\ UNCHANGED <<gemini, cli, stub, firstRun>>

InitRerun ==
  /\ RunInit
  /\ faults = 0
  /\ itemsLeft = 1
  /\ mailbox \in Mailboxes(1)
  /\ userLabels = <<>>
  /\ drafts = <<>>
  /\ runNo = 1
  /\ OutsideIdle

NextRerun == Next \/ NextRun

SpecRerun == InitRerun /\ [][NextRerun]_vars

\* A mailbox of more messages than the Drafter's cap: DraftLimit + 1 plain
\* inbox messages, each its own thread.
InitLarge ==
  /\ RunInit
  /\ faults = 0
  /\ itemsLeft = 1
  /\ mailbox = [i \in 1..(DraftLimit + 1) |-> Msg(i, i, {"INBOX"}, "plain")]
  /\ userLabels = <<>>
  /\ drafts = <<>>
  /\ runNo = 1
  /\ OutsideIdle

SpecLarge == InitLarge /\ [][Next]_vars

\* The end-to-end scenario.  Its mailbox: msg1 and msg2 from ordinary
\* senders, msg3 a Jira notification, each its own thread, no user label yet.
ScenarioMailbox ==
  <<Msg(1, 1, {"INBOX"}, "plain"), Msg(2, 2, {"INBOX"}, "plain"),
    Msg(3, 3, {"INBOX"}, "jira")>>

\* Its model stubs: the classifier answers [archive msg1, vip msg2, label
\* msg3 "Low Priority"] for the three messages, the drafting model a normal
\* body for msg2, the Watchman model [] for its input.
ScenarioStub ==
  [on |-> TRUE, learns |-> FALSE,
   said |-> << [stage |-> "triage", input |-> ScenarioMailbox,
                reply |-> <<LB, Decision(1, "archive", ""), Decision(2, "vip", ""),
                            Decision(3, "label", "Low Priority"), RB>>],
               [stage |-> "drafter", input |-> <<ScenarioMailbox[2]>>, reply |-> <<W>>],
               [stage |-> "watchman", input |-> <<ScenarioMailbox[2], ScenarioMailbox[2]>>,
                reply |-> <<LB, RB>>] >>]

InitScenario ==
  /\ RunInit
  /\ faults = 0
  /\ itemsLeft = 3
  /\ mailbox = ScenarioMailbox
  /\ userLabels = <<>>
  /\ drafts = <<>>
  /\ runNo = 1
  /\ gemini = GeminiIdle("")
  /\ cli = CliStart
  /\ stub = ScenarioStub
  /\ firstRun = <<>>

SpecScenario == InitScenario /\ [][Next]_vars


\* ------------------------------------------- GeminiClient.generateWithSystem
\* The pipeline at rest: no run in progress, an empty mailbox.
PipelineIdle ==
  /\ RunInit
  /\ faults = 0
  /\ itemsLeft = 0
  /\ mailbox = <<>>
  /\ userLabels = <<>>
  /\ drafts = <<>>
  /\ runNo = 1

\* generateWithSystem is called (lines 42-56): the loop starts at the first
\* candidate with lastError null.
GenerateWithSystem ==
  /\ gemini.pc \in {"idle", "returned", "thrown"}
  /\ gemini.callsMade < MaxCalls
  /\ gemini' = [gemini EXCEPT !.pc = "trying", !.at = 1, !.attempts = <<>>,
                              !.lastError = "null", !.result = "", !.message = "",
                              !.callsMade = @ + 1]
  /\ UNCHANGED <<pipelineVars, cli, stub, firstRun>>

\* Lines 59-66: the attempt with the current candidate succeeds, and its text
\* is returned.
AttemptSucceeds ==
  /\ gemini.pc = "trying"
  /\ LET model == modelsToTry(gemini.env)[gemini.at]
     IN gemini' = [gemini EXCEPT !.pc = "returned",
                                 !.attempts = Append(@, [model |-> model, ok |-> TRUE,
                                                         error |-> ""]),
                                 !.result = model]
  /\ UNCHANGED <<pipelineVars, cli, stub, firstRun>>

\* Lines 67-81: the attempt fails; the error is kept as lastError, and the
\* loop goes to the next candidate or, after the last, the function throws
\* with the message of lastError.
AttemptFails ==
  /\ gemini.pc = "trying"
  /\ \E error \in GeminiErrors :
       LET model == modelsToTry(gemini.env)[gemini.at]
           last == gemini.at = Len(modelsToTry(gemini.env))
       IN gemini' = [gemini EXCEPT !.attempts = Append(@, [model |-> model, ok |-> FALSE,
                                                           error |-> error]),
                                   !.lastError = error,
                                   !.at = IF last THEN @ ELSE @ + 1,
                                   !.pc = IF last THEN "thrown" ELSE "trying",
                                   !.message = IF last THEN error ELSE @]
  /\ UNCHANGED <<pipelineVars, cli, stub, firstRun>>

InitGemini ==
  /\ PipelineIdle
  /\ gemini \in {GeminiIdle(env) : env \in GeminiModelEnv}
  /\ cli = CliStart
  /\ stub = StubOff
  /\ firstRun = <<>>

NextGemini ==
  \/ GenerateWithSystem
  \/ AttemptSucceeds
  \/ AttemptFails

SpecGemini == InitGemini /\ [][NextGemini]_vars


\* ------------------------------------------------- index.ts: run <agent-name>
\* Lines 38-44: the action looks the name up; for a name that is not in the
\* registry it prints the error and calls process.exit(1).
CliRun ==
  /\ cli.pc = "start"
  /\ \E agentName \in AgentNames :
       cli' = IF agentName \in agents
              THEN [cli EXCEPT !.agentName = agentName, !.pc = "constructing"]
              ELSE [cli EXCEPT !.agentName = agentName, !.pc = "exited", !.exitCode = 1]
  /\ UNCHANGED <<pipelineVars, gemini, stub, firstRun>>

\* Lines 46-49 and 52-55: factory(); a constructor that throws is caught,
\* and the process exits with 1.
CliConstruct ==
  /\ cli.pc = "constructing"
  /\ \E ok \in BOOLEAN :
       cli' = [cli EXCEPT !.constructed = Append(@, [name |-> cli.agentName, ok |-> ok]),
                          !.pc = IF ok THEN "running" ELSE "exited",
                          !.exitCode = IF ok THEN @ ELSE 1]
  /\ UNCHANGED <<pipelineVars, gemini, stub, firstRun>>

\* Mutant of CliAgentRun: the success message is printed whether run()
\* returned or threw.
CliAgentRunAlwaysReports ==
  /\ cli.pc = "running"
  /\ \E ok \in BOOLEAN :
       cli' = [cli EXCEPT !.ran = Append(@, [name |-> cli.agentName, ok |-> ok]),
                          !.printed = Append(@, cli.agentName),
                          !.pc = "exited",
                          !.exitCode = IF ok THEN 0 ELSE 1]
  /\ UNCHANGED <<pipelineVars, gemini, stub, firstRun>>

\* Lines 50-55: await agent.run(); when it returns the success message is
\* printed and the process ends with 0; when it throws, the catch prints the
\* failure and the process exits with 1.
CliAgentRun ==
  /\ cli.pc = "running"
  /\ \E ok \in BOOLEAN :
       cli' = [cli EXCEPT !.ran = Append(@, [name |-> cli.agentName, ok |-> ok]),
                          !.printed = IF ok THEN Append(@, cli.agentName) ELSE @,
                          !.pc = "exited",
                          !.exitCode = IF ok THEN 0 ELSE 1]
  /\ UNCHANGED <<pipelineVars, gemini, stub, firstRun>>

\* The command is given again, in a new process.
CliAgain ==
  /\ cli.pc = "exited"
  /\ Len(cli.log) + 1 < MaxInvocations
  /\ cli' = [CliStart EXCEPT
               !.log = Append(cli.log, [agentName |-> cli.agentName,
                                        exitCode |-> cli.exitCode])]
  /\ UNCHANGED <<pipelineVars, gemini, stub, firstRun>>

InitCli ==
  /\ PipelineIdle
  /\ gemini = GeminiIdle("")
  /\ cli = CliStart
  /\ stub = StubOff
  /\ firstRun = <<>>

NextCli ==
  \/ CliRun
  \/ CliConstruct
  \/ CliAgentRun
  \/ CliAgain

SpecCli == InitCli /\ [][NextCli]_vars


\* ------------------------------------------------ two runs, one snapshot
\* The pipeline is run against a mailbox snapshot with a deterministic model
\* stub; then the snapshot is restored and the pipeline is run again.
\* firstRun keeps the snapshot and what the first run returned and issued.
InitReplay ==
  /\ RunInit
  /\ faults = 0
  /\ itemsLeft = 1
  /\ mailbox \in Mailboxes(1)
  /\ userLabels = <<>>
  /\ drafts = <<>>
  /\ runNo = 1
  /\ gemini = GeminiIdle("")
  /\ cli = CliStart
  /\ stub = StubOn
  /\ firstRun = [mailbox |-> mailbox, over |-> FALSE, thrown |-> FALSE, calls |-> <<>>,
                 triageResults |-> <<>>, draftResults |-> <<>>, watchmanResults |-> <<>>]

\* The first run is over: its outcome is kept, the mailbox, the labels and
\* the drafts are put back to the snapshot, and the second run starts with
\* the same stub and the same budget of failures.
Rewind ==
  /\ pc \in {"done", "aborted"}
  /\ runNo = 1
  /\ firstRun.mailbox # <<>>
  /\ firstRun' = [firstRun EXCEPT !.over = TRUE, !.thrown = thrown, !.calls = calls,
                                  !.triageResults = triageResults,
                                  !.draftResults = draftResults,
                                  !.watchmanResults = watchmanResults]
  /\ runNo' = 2
  /\ mailbox' = firstRun.mailbox
  /\ userLabels' = <<>>
  /\ drafts' = <<>>
  /\ faults' = 0
  /\ itemsLeft' = 1
  /\ pc' = "fetch"
  /\ thrown' = FALSE
  /\ emails' = <<>>
  /\ pending' = <<>>
  /\ idx' = 1
  /\ triageResults' = <<>>
  /\ importantEmails' = <<>>
  /\ vipEmails' = <<>>
  /\ draftResults' = <<>>
  /\ watchInput' = <<>>
  /\ watchmanResults' = <<>>
  /\ briefing' = <<>>
  /\ calls' = <<>>
  /\ replyDefect' = [triage |-> "", watchman |-> ""]
  /\ errorLog' = <<>>
  /\ UNCHANGED <<gemini, cli, stub>>

NextReplay == Next \/ Rewind

SpecReplay == InitReplay /\ [][NextReplay]_vars


\* ------------------------------------------------- the load of one run
\* A listing of more messages than run() fetches: FetchLimit + 1 plain inbox
\* messages, each its own thread; the client is configured with a model name
\* that is not in its built-in list.
InitLoad ==
  /\ RunInit
  /\ faults = 0
  /\ itemsLeft = 1
  /\ mailbox = [i \in 1..(FetchLimit + 1) |-> Msg(i, i, {"INBOX"}, "plain")]
  /\ userLabels = <<>>
  /\ drafts = <<>>
  /\ runNo = 1
  /\ gemini = GeminiIdle("custom-model")
  /\ cli = CliStart
  /\ stub = StubOff
  /\ firstRun = <<>>

\* A step of the run; the attempts of the client's calls are not followed
\* during a run.
RunWithIdleClient ==
  /\ gemini.callsMade = 0
  /\ Next

\* generateWithSystem, attempt by attempt, on the agent's client while no run
\* is in progress.
ClientOutsideRun ==
  /\ pc = "fetch"
  /\ NextGemini

NextLoad == RunWithIdleClient \/ ClientOutsideRun

SpecLoad == InitLoad /\ [][NextLoad]_vars


\* ------------------------------------------------- labels that exist
\* A mailbox of one message in which the user may already have a label of
\* the name the pipeline uses, written in lower case.
InitLabels ==
  /\ RunInit
  /\ faults = 0
  /\ itemsLeft = MaxItems
  /\ mailbox \in Mailboxes(1)
  /\ userLabels \in {<<>>, <<"vip">>, <<"low priority">>}
  /\ drafts = <<>>
  /\ runNo = 1
  /\ OutsideIdle

SpecLabels == InitLabels /\ [][Next]_vars


\* ================================================================ claims
IdsOf(es) == {es[i].id : i \in DOMAIN es}

\* The snapshot of message id taken by this run.
Snapshot(id) == emails[CHOOSE i \in DOMAIN emails : emails[i].id = id]

\* The position of message id in a list of messages, 0 if it is not there.
PosIn(es, id) ==
  IF id \in IdsOf(es) THEN CHOOSE i \in DOMAIN es : es[i].id = id ELSE 0

CallsOf(by, ops) == {k \in DOMAIN calls : calls[k].by = by /\ calls[k].op \in ops}

StageRank(by) ==
  CASE by = "fetch" -> 1 [] by = "triage" -> 2 [] by = "drafter" -> 3 [] by = "watchman" -> 4

\* run() has computed the Drafter input / the VIP set and the Watchman input.
PastPartition == pc \notin {"fetch", "triage", "applying", "partition"}
PastDraft == PastPartition /\ pc # "draft"

Suppressed(id) ==
  \E k \in DOMAIN triageResults :
    triageResults[k].id = id /\ triageResults[k].action \in {"archive", "label"}

Pinned(id) ==
  \E k \in DOMAIN triageResults :
    triageResults[k].id = id /\ triageResults[k].action = "vip"

\* C1: the stages run once each in the order fetch, triage, (partition,)
\* drafter, watchman, briefing: in the run's sequence of external calls every
\* call of an earlier stage precedes every call of a later stage (so every
\* triage mutation precedes the Drafter's first model call and draft
\* creation, and every Drafter draft creation precedes the Watchman's
\* calendar fetch, model call and draft-requests); the listing, the triage
\* model call, the calendar fetch and the Watchman model call happen at most
\* once; no later stage has issued a call while an earlier one is running;
\* and the briefing is printed last.
C1_StageOrder ==
  /\ \A i, j \in DOMAIN calls : i < j => StageRank(calls[i].by) <= StageRank(calls[j].by)
  /\ Cardinality(CallsOf("fetch", {"list"})) <= 1
  /\ Cardinality(CallsOf("triage", {"llm"})) <= 1
  /\ Cardinality(CallsOf("watchman", {"calendar"})) <= 1
  /\ Cardinality(CallsOf("watchman", {"llm"})) <= 1
  /\ pc = "fetch" => calls = <<>>
  /\ pc \in {"triage", "applying", "partition"} =>
       \A k \in DOMAIN calls : calls[k].by \in {"fetch", "triage"}
  /\ pc = "draft" => \A k \in DOMAIN calls : calls[k].by # "watchman"
  /\ briefing # <<>> => pc = "done"

\* A finished run in which triage archived a message, the Drafter created a
\* draft and the Watchman created a link-request draft.
C1_Witness ==
  /\ pc = "done"
  /\ briefing # <<>>
  /\ \E k \in CallsOf("triage", {"archive"}) : calls[k].ok
  /\ \E k \in CallsOf("drafter", {"draft.create"}) : calls[k].ok
  /\ \E k \in CallsOf("watchman", {"draft.create"}) : calls[k].ok

\* C2: once the fetch stage has produced a message, no failure of an external
\* call made in the classify, draft or watch stage aborts the run: a run with
\* a non-empty snapshot is aborted only by the rendering of a malformed
\* (null) intervention, never by a failed call.
C2_StageFailuresAbsorbed ==
  (emails # <<>> /\ pc = "aborted") =>
    \E i \in DOMAIN watchmanResults : watchmanResults[i].t = "null"

\* C3: the Drafter input is exactly the fetched messages, in fetch order,
\* that have no archive or label decision; the VIP set is exactly the fetched
\* messages that have a vip decision; the Watchman input holds exactly the
\* messages of the two; with no decision the Drafter input is the whole
\* snapshot and the VIP set is empty.
C3_PartitionRule ==
  /\ PastPartition =>
       /\ IdsOf(importantEmails) = {id \in IdsOf(emails) : ~Suppressed(id)}
       /\ \A i \in DOMAIN importantEmails : importantEmails[i] \in Range(emails)
       /\ \A i, j \in DOMAIN importantEmails :
            i < j => PosIn(emails, importantEmails[i].id) < PosIn(emails, importantEmails[j].id)
       /\ triageResults = <<>> => importantEmails = emails
  /\ PastDraft =>
       /\ IdsOf(vipEmails) = {id \in IdsOf(emails) : Pinned(id)}
       /\ Range(watchInput) = Range(importantEmails) \cup Range(vipEmails)
       /\ triageResults = <<>> => vipEmails = <<>>

\* Two fetched messages, one with a label decision and one with a vip
\* decision, and the partition done.
C3_Witness ==
  /\ pc = "watch"
  /\ Len(emails) = 2
  /\ \E k \in DOMAIN triageResults : triageResults[k].action = "label" /\ triageResults[k].id = 1
  /\ Pinned(2)
  /\ IdsOf(importantEmails) = {2}

\* C4: when the model call of the Classifier (of the Watchman) fails, or its
\* reply carries no array literal or one that does not parse, the Classifier
\* (the Watchman) returns the empty list, issues no mailbox call and does not
\* throw; after such a Classifier failure every fetched message is in the
\* Drafter input and none is pinned.
C4_SoftFailure ==
  /\ replyDefect.triage # "" =>
       /\ pc # "applying"
       /\ triageResults = <<>>
       /\ CallsOf("triage", {"archive", "labels.list", "labels.create", "label"}) = {}
       /\ \A i \in DOMAIN emails : mailbox[emails[i].id].labels = emails[i].labels
       /\ PastPartition => importantEmails = emails
       /\ PastDraft => vipEmails = <<>>
       /\ pc = "aborted" => CallsOf("watchman", {"calendar"}) # {}
  /\ replyDefect.watchman # "" =>
       /\ pc \in {"render", "done"}
       /\ ~thrown
       /\ watchmanResults = <<>>
       /\ CallsOf("watchman", {"get", "draft.create"}) = {}

\* A finished run in which the Classifier's reply and the Watchman's reply
\* both carried no parseable array.
C4_Witness ==
  /\ pc = "done"
  /\ Len(emails) = 2
  /\ replyDefect.triage = "reply"
  /\ replyDefect.watchman = "reply"

\* C5: at most one decision per message is consumed: the mailbox change made
\* to a fetched message in a run (labels added to or removed from its
\* snapshot) is that of a single decision, and no message is both suppressed
\* (archive/label) and pinned as VIP.
C5_OneDecisionPerMessage ==
  /\ \A i \in DOMAIN emails :
       LET now == mailbox[emails[i].id].labels
           was == emails[i].labels
       IN Cardinality((now \ was) \cup (was \ now)) <= 1
  /\ \A id \in IdsOf(emails) : ~(Suppressed(id) /\ Pinned(id))

\* C6: a message whose snapshot carries SENT or DRAFT is never passed to the
\* drafting model, has no call made for it by the Drafter, and gets no draft
\* record and no Drafter draft, wherever it stands in the Drafter input.
C6_TerminalLabelNeverDrafted ==
  /\ \A k \in DOMAIN calls :
       calls[k].by = "drafter" => Snapshot(calls[k].id).labels \cap {"SENT", "DRAFT"} = {}
  /\ \A i \in DOMAIN draftResults :
       Snapshot(draftResults[i].emailId).labels \cap {"SENT", "DRAFT"} = {}
  /\ \A i \in DOMAIN drafts :
       (drafts[i].by = "drafter" /\ drafts[i].run = runNo /\ emails # <<>>) =>
         Snapshot(drafts[i].replyTo).labels \cap {"SENT", "DRAFT"} = {}

\* The Drafter has gone through an input whose first message carries DRAFT
\* or SENT and has drafted a reply to the one after it.
C6_Witness ==
  /\ pc = "watch"
  /\ Len(importantEmails) = 2
  /\ importantEmails[1].labels \cap {"SENT", "DRAFT"} # {}
  /\ \E i \in DOMAIN draftResults : draftResults[i].emailId = importantEmails[2].id

\* C7: when the drafting model's reply for a message is SKIP_DRAFT in any
\* spelling, with or without surrounding whitespace (the replies for a
\* "notif" message), no header fetch and no draft creation is made for the
\* message, it has no draft record, and the Drafter goes on: every message
\* of the batch that passes the pre-filters has had its model call.
C7_SkipDraftHonoured ==
  /\ \A k \in CallsOf("drafter", {"get", "draft.create"}) :
       Snapshot(calls[k].id).kind # "notif"
  /\ \A i \in DOMAIN draftResults : Snapshot(draftResults[i].emailId).kind # "notif"
  /\ PastDraft =>
       \A i \in DOMAIN importantEmails :
         ( /\ i <= 20
           /\ importantEmails[i].labels \cap {"SENT", "DRAFT"} = {}
           /\ importantEmails[i].kind \in {"plain", "notif"} ) =>
         \E k \in CallsOf("drafter", {"llm"}) : calls[k].id = importantEmails[i].id

\* The model answered SKIP_DRAFT for the first message of the Drafter input
\* and the Drafter drafted a reply to the second.
C7_Witness ==
  /\ pc = "watch"
  /\ Len(importantEmails) = 2
  /\ importantEmails[1].kind = "notif"
  /\ \E k \in CallsOf("drafter", {"llm"}) : calls[k].id = importantEmails[1].id /\ calls[k].ok
  /\ \E i \in DOMAIN draftResults : draftResults[i].emailId = importantEmails[2].id

\* C8: the Drafter makes no call for a message at position 21 or later of
\* its input; it returns at most min(20, |input|) records; the records are
\* for distinct messages among the first 20, each with a successful draft
\* creation and its draft in the mailbox.
C8_DraftCap ==
  /\ \A k \in DOMAIN calls :
       calls[k].by = "drafter" => PosIn(importantEmails, calls[k].id) \in 1..20
  /\ Len(draftResults) <= Min(20, Len(importantEmails))
  /\ \A i, j \in DOMAIN draftResults :
       i # j => draftResults[i].emailId # draftResults[j].emailId
  /\ \A i \in DOMAIN draftResults :
       /\ PosIn(importantEmails, draftResults[i].emailId) \in 1..20
       /\ \E k \in CallsOf("drafter", {"draft.create"}) :
            calls[k].id = draftResults[i].emailId /\ calls[k].ok
       /\ draftResults[i].draftId \in DOMAIN drafts
       /\ drafts[draftResults[i].draftId].replyTo = draftResults[i].emailId

\* A finished run whose Drafter input had 21 messages and whose Drafter
\* created 20 drafts.
C8_Witness ==
  /\ pc = "done"
  /\ Len(importantEmails) = 21
  /\ Len(draftResults) = 20

\* C9: never double-draft: the Drafter creates at most one reply draft for a
\* message, also across runs over the same mailbox.
C9_NeverDoubleDraft ==
  \A i, j \in DOMAIN drafts :
    (i # j /\ drafts[i].by = "drafter" /\ drafts[j].by = "drafter") =>
      drafts[i].replyTo # drafts[j].replyTo

\* C10: a draft-request whose emailId is the id of a message of the Watchman
\* input gets its link-request draft created in reply to exactly that message.
C10_ResolvedById ==
  [][ ( /\ pc = "watching"
        /\ pending[idx].t = "obj"
        /\ pending[idx].action = "draft-request"
        /\ pending[idx].emailId \in IdsOf(watchInput)
        /\ Len(drafts') = Len(drafts) + 1 )
      => drafts'[Len(drafts')].replyTo = pending[idx].emailId ]_vars

\* C11: a failure at the fetch stage aborts the run: when the listing or the
\* content fetch of a listed message has failed, run() throws, and no call
\* other than those of the fetch stage is made in the run.
C11_FetchFailureAborts ==
  ( /\ pc # "fetch"
    /\ \E k \in CallsOf("fetch", {"list", "get"}) : ~calls[k].ok )
  => /\ thrown
     /\ \A k \in DOMAIN calls : calls[k].by = "fetch"

\* C13: no step of a run sends mail or deletes a message: the stored
\* messages stay the same messages, a message loses no label but INBOX and
\* gains only user labels, labels and drafts are only added, and the calls
\* issued are listings, reads, model calls, and the four mutations (archive,
\* label creation, label application, draft creation).
C13_NoSendNoDelete ==
  [][ /\ Len(mailbox') = Len(mailbox)
      /\ \A i \in DOMAIN mailbox :
           /\ mailbox'[i].id = mailbox[i].id
           /\ mailbox'[i].threadId = mailbox[i].threadId
           /\ mailbox'[i].kind = mailbox[i].kind
           /\ mailbox[i].labels \ mailbox'[i].labels \subseteq {"INBOX"}
           /\ mailbox'[i].labels \ mailbox[i].labels \subseteq Range(userLabels')
      /\ Len(userLabels') >= Len(userLabels)
      /\ SubSeq(userLabels', 1, Len(userLabels)) = userLabels
      /\ Len(drafts') >= Len(drafts)
      /\ SubSeq(drafts', 1, Len(drafts)) = drafts
      /\ \A k \in DOMAIN calls' :
           calls'[k].op \in {"list", "get", "llm", "calendar", "labels.list",
                             "archive", "label", "labels.create", "draft.create"}
    ]_vars

\* A finished run that archived one message, created a label and applied it
\* to another, and created a draft.
C13_Witness ==
  /\ pc = "done"
  /\ userLabels # <<>>
  /\ \E i \in DOMAIN mailbox : "INBOX" \notin mailbox[i].labels
  /\ \E i \in DOMAIN mailbox : mailbox[i].labels \cap Range(userLabels) # {}
  /\ drafts # <<>>

\* C19: an item whose stage-local action failed is absent from the stage's
\* result: a decision whose archive or label application failed is not in
\* the decision list used for the partition, a message with a failed Drafter
\* call has no draft record, and every draft-request in the reported
\* interventions had its draft created.
C19_FailedItemsAbsent ==
  /\ PastPartition =>
       \A k \in CallsOf("triage", {"archive", "label"}) :
         ~calls[k].ok =>
           ~\E d \in DOMAIN triageResults :
              /\ triageResults[d].id = calls[k].id
              /\ (calls[k].op = "archive") = (triageResults[d].action = "archive")
              /\ triageResults[d].action \in {"archive", "label", "vip"}
  /\ \A k \in CallsOf("drafter", {"llm", "get", "draft.create"}) :
       ~calls[k].ok => \A i \in DOMAIN draftResults : draftResults[i].emailId # calls[k].id
  /\ briefing # <<>> =>
       Cardinality({i \in DOMAIN watchmanResults : watchmanResults[i].action = "draft-request"})
         <= Cardinality({k \in CallsOf("watchman", {"draft.create"}) : calls[k].ok})

C14_VipExempt ==
  \A i \in DOMAIN emails :
    OnAllowList(emails[i]) =>
      /\ "INBOX" \in emails[i].labels => "INBOX" \in mailbox[emails[i].id].labels
      /\ "Low Priority" \notin mailbox[emails[i].id].labels
      /\ PastDraft => emails[i].id \in IdsOf(watchInput)

\* C15: the end-to-end scenario.  In a finished run over msg1, msg2, msg3
\* (msg3 a Jira notification) in which no call failed, the classifier
\* answered [archive msg1, vip msg2, label msg3 "Low Priority"] and the
\* Watchman model answered []: msg1 is archived, msg3 carries the label
\* "Low Priority" and msg2 the label "VIP" (both created), msg2 and only
\* msg2 is given to the Drafter and to the Watchman, one draft (for msg2)
\* is created, there is no intervention, and the briefing shows 1 pinned
\* message, 1 draft and 0 interventions.
C15_Scenario ==
  ( /\ pc = "done"
    /\ IdsOf(emails) = {1, 2, 3}
    /\ \A k \in DOMAIN calls : calls[k].ok
    /\ triageResults = <<Decision(1, "archive", ""), Decision(2, "vip", ""),
                         Decision(3, "label", "Low Priority")>>
    /\ replyDefect.watchman = ""
    /\ watchmanResults = <<>> )
  => /\ mailbox[1].labels = {}
     /\ mailbox[2].labels = {"INBOX", "VIP"}
     /\ mailbox[3].labels = {"INBOX", "Low Priority"}
     /\ Range(userLabels) = {"VIP", "Low Priority"}
     /\ IdsOf(importantEmails) = {2}
     /\ IdsOf(watchInput) = {2}
     /\ Len(draftResults) = 1
     /\ draftResults[1].emailId = 2
     /\ Len(drafts) = 1
     /\ drafts[1].replyTo = 2
     /\ briefing = <<[pinned |-> 1, drafts |-> 1, interventions |-> 0]>>

\* The scenario has been run to its end.
C15_Witness ==
  /\ pc = "done"
  /\ IdsOf(emails) = {1, 2, 3}
  /\ \A k \in DOMAIN calls : calls[k].ok
  /\ triageResults = <<Decision(1, "archive", ""), Decision(2, "vip", ""),
                       Decision(3, "label", "Low Priority")>>
  /\ replyDefect.watchman = ""
  /\ watchmanResults = <<>>
  /\ briefing # <<>>

\* C12: generateWithSystem tries the candidates in a fixed order: the
\* requested model first, then the built-in names in their listed order, no
\* name twice, at most 6 attempts; an attempt is made only after every
\* earlier one failed; the text returned is that of the first successful
\* attempt; it throws only when every candidate failed, with the message of
\* the last failure; every call starts again from the requested model.
C12_ModelFallback ==
  LET a == gemini.attempts
      builtin == <<"gemini-flash-latest", "gemini-pro-latest", "gemini-2.5-flash",
                   "gemini-2.5-pro", "gemini-2.0-flash">>
      req == IF gemini.env = "" THEN "gemini-flash-latest" ELSE gemini.env
      rank(m) == IF m = req THEN 0 ELSE CHOOSE i \in DOMAIN builtin : builtin[i] = m
  IN /\ Len(a) <= 6
     /\ \A i \in DOMAIN a : a[i].model \in {req} \cup Range(builtin)
     /\ a # <<>> => a[1].model = req
     /\ \A i, j \in DOMAIN a : i < j => rank(a[i].model) < rank(a[j].model)
     /\ \A j \in DOMAIN a : \A m \in {req} \cup Range(builtin) :
          rank(m) < rank(a[j].model) => \E i \in 1..(j - 1) : a[i].model = m
     /\ \A i \in DOMAIN a : i < Len(a) => ~a[i].ok
     /\ gemini.pc = "trying" => \A i \in DOMAIN a : ~a[i].ok
     /\ gemini.pc = "returned" => a # <<>> /\ a[Len(a)].ok /\ gemini.result = a[Len(a)].model
     /\ gemini.pc = "thrown" =>
          /\ \A i \in DOMAIN a : ~a[i].ok
          /\ {a[i].model : i \in DOMAIN a} = {req} \cup Range(builtin)
          /\ gemini.message = a[Len(a)].error

\* The second call on a client whose requested model is one of the built-in
\* names has thrown after five attempts, the last error differing from the
\* one before it.
C12_Witness ==
  /\ gemini.callsMade = 2
  /\ gemini.pc = "thrown"
  /\ gemini.env = "gemini-2.5-flash"
  /\ Len(gemini.attempts) = 5
  /\ gemini.attempts[4].error # gemini.attempts[5].error

\* C16: `run <agent-name>`: for a name that is not in the registry the
\* process exits with a non-zero status and constructs and runs no agent;
\* for a registered name that agent, and no other, is constructed once and
\* run at most once, the success message is printed only after run()
\* returned normally, and the process exits non-zero when the constructor
\* or run() threw.
C16_RunCommand ==
  LET name == cli.agentName
      registered == name \in {"hubspot-reviewer"}
  IN /\ (cli.pc # "start" /\ ~registered) =>
          /\ cli.pc = "exited"
          /\ cli.exitCode # 0
          /\ cli.constructed = <<>> /\ cli.ran = <<>> /\ cli.printed = <<>>
     /\ (cli.pc # "start" /\ registered) =>
          /\ Len(cli.constructed) <= 1 /\ Len(cli.ran) <= 1
          /\ \A i \in DOMAIN cli.constructed : cli.constructed[i].name = name
          /\ \A i \in DOMAIN cli.ran : cli.ran[i].name = name
          /\ cli.ran # <<>> => cli.constructed = <<[name |-> name, ok |-> TRUE]>>
          /\ cli.printed # <<>> =>
               cli.printed = <<name>> /\ cli.ran = <<[name |-> name, ok |-> TRUE]>>
          /\ cli.pc = "exited" =>
               /\ cli.constructed # <<>>
               /\ cli.constructed[1].ok => cli.ran # <<>>
               /\ (~cli.constructed[1].ok \/ ~cli.ran[1].ok) => cli.exitCode # 0

\* After an invocation with an unknown name and one whose run() threw, a
\* third invocation has run the registered agent to its end.
C16_Witness ==
  /\ cli.pc = "exited"
  /\ cli.printed = <<"hubspot-reviewer">>
  /\ Len(cli.log) = 2
  /\ cli.log[1].agentName = "no-such-agent" /\ cli.log[1].exitCode = 1
  /\ cli.log[2].agentName = "hubspot-reviewer" /\ cli.log[2].exitCode = 1

\* C17: every agent the README documents is registered: `run <name>` for
\* calendar-assistant, email-assistant, customer-intelligence and
\* hubspot-reviewer constructs that agent instead of reporting 'not found'.
C17_DocumentedAgentsRegistered ==
  ( /\ cli.pc = "exited"
    /\ cli.agentName \in {"calendar-assistant", "email-assistant",
                          "customer-intelligence", "hubspot-reviewer"} )
  => cli.constructed # <<>>

C21_DrafterIsolation ==
  [][ (pc = "draft" /\ idx <= Len(Slice(importantEmails, 20))) =>
        /\ pc' = "draft"
        /\ idx' = idx + 1
        /\ ~thrown'
        /\ importantEmails' = importantEmails
        /\ faults' > faults =>
             /\ calls' # calls
             /\ calls'[Len(calls')] \in
                  {Call("drafter", op, importantEmails[idx].id, FALSE) :
                     op \in {"llm", "get", "draft.create"}}
             /\ errorLog' = Append(errorLog, "createDrafts")
             /\ drafts' = drafts
             /\ draftResults' = draftResults
             /\ \A i \in DOMAIN draftResults' :
                  draftResults'[i].emailId # importantEmails[idx].id
    ]_vars

\* The Drafter has returned: a call for the first message of its input
\* failed, and the second message has its draft record.
C21_Witness ==
  /\ pc = "watch"
  /\ Len(importantEmails) = 2
  /\ \E k \in CallsOf("drafter", {"llm", "get", "draft.create"}) :
       calls[k].id = importantEmails[1].id /\ ~calls[k].ok
  /\ draftResults = <<[emailId |-> importantEmails[2].id, draftId |-> 1]>>

\* C22: Watchman intervention failure isolation.  For a draft-request whose
\* referenced message cannot be resolved, or whose header fetch or draft
\* creation fails: the failure is logged, no draft is created for the
\* intervention, and the loop goes on to the next intervention (after the
\* last, the Watchman returns the list).
C22_InterventionIsolation ==
  [][ ( /\ pc = "watching"
        /\ pending[idx].t = "obj"
        /\ pending[idx].action = "draft-request"
        /\ \/ ResolveIntervention(watchInput, pending[idx]) = 0
           \/ faults' > faults )
      => /\ Len(errorLog') = Len(errorLog) + 1
         /\ drafts' = drafts
         /\ ~thrown'
         /\ IF idx < Len(pending)
            THEN pc' = "watching" /\ idx' = idx + 1 /\ pending' = pending
            ELSE pc' = "render" /\ watchmanResults' = pending
    ]_vars

\* The interventions the Watchman's loop has gone through so far.
ProcessedInterventions ==
  IF pc = "watching" THEN SubSeq(pending, 1, idx - 1) ELSE watchmanResults

\* The messages the draft-requests of a list resolve to, in list order.
RECURSIVE TargetsOf(_)
TargetsOf(ivs) ==
  IF ivs = <<>> THEN <<>>
  ELSE LET x == Head(ivs)
           at == IF x.t = "obj" /\ x.action = "draft-request"
                 THEN ResolveIntervention(watchInput, x) ELSE 0
       IN (IF at = 0 THEN <<>> ELSE <<watchInput[at].id>>) \o TargetsOf(Tail(ivs))

\* The messages of the calls op issued by a stage, in the order of the calls.
CallIds(by, op) ==
  LET cs == SelectSeq(calls, LAMBDA c : c.by = by /\ c.op = op)
  IN [k \in DOMAIN cs |-> cs[k].id]

C24_AdvisoryOnly ==
  [][ ( /\ pc = "watching"
        /\ pending[idx].t = "obj"
        /\ pending[idx].action \in {"nudge", "flag", "other"} )
      => /\ calls' = calls
         /\ mailbox' = mailbox
         /\ userLabels' = userLabels
         /\ drafts' = drafts
         /\ IF idx < Len(pending)
            THEN pending' = pending /\ pc' = "watching"
            ELSE watchmanResults' = pending /\ pc' = "render"
    ]_vars

\* The Watchman has returned a nudge and a flag that both refer to a message
\* of its input; it created no draft.
C24_Witness ==
  /\ pc = "render"
  /\ Len(watchmanResults) = 2
  /\ watchmanResults[1].t = "obj" /\ watchmanResults[1].action = "nudge"
  /\ watchmanResults[2].t = "obj" /\ watchmanResults[2].action = "flag"
  /\ watchmanResults[1].emailId \in IdsOf(watchInput)
  /\ CallsOf("watchman", {"get", "draft.create"}) = {}
  /\ \A i \in DOMAIN drafts : drafts[i].by # "watchman"

\* C25: when the fetch stage yields no message (the listing is empty, or no
\* listed message's content could be fetched), the run ends normally right
\* after the fetch: it does not throw, makes no model call, no calendar
\* fetch and no mailbox mutation (the only calls of the run are the listing
\* and the content fetches; messages, labels and drafts are untouched), and
\* prints no briefing.
C25_EmptyFetchEndsRun ==
  ( /\ pc # "fetch"
    /\ emails = <<>>
    /\ \A k \in CallsOf("fetch", {"list"}) : calls[k].ok )
  => /\ pc = "done"
     /\ ~thrown
     /\ \A k \in DOMAIN calls : calls[k].by = "fetch" /\ calls[k].op \in {"list", "get"}
     /\ \A i \in DOMAIN mailbox : "INBOX" \in mailbox[i].labels
     /\ \A i \in DOMAIN mailbox : mailbox[i].labels \subseteq {"INBOX", "SENT", "DRAFT"}
     /\ userLabels = <<>>
     /\ drafts = <<>>
     /\ briefing = <<>>

\* A run over a listed message whose content fetch failed has ended.
C25_Witness ==
  /\ pc = "done"
  /\ emails = <<>>
  /\ mailbox # <<>>
  /\ \E k \in CallsOf("fetch", {"get"}) : ~calls[k].ok

\* The decisions of a list that name a fetched message.
KnownDecisions(rs) == SelectSeq(rs, LAMBDA r : r.id \in IdsOf(emails))

\* The Drafter input, the VIP set and the Watchman input are what the
\* decisions that name a fetched message make them.
UnknownIdsChangeNothing ==
  LET known == KnownDecisions(triageResults)
      suppressed(e) == \E k \in DOMAIN known :
                         known[k].id = e.id /\ known[k].action \in {"archive", "label"}
      pinned(e) == \E k \in DOMAIN known : known[k].id = e.id /\ known[k].action = "vip"
  IN /\ PastPartition => importantEmails = SelectSeq(emails, LAMBDA e : ~suppressed(e))
     /\ PastDraft =>
          /\ vipEmails = SelectSeq(emails, pinned)
          /\ watchInput = SelectSeq(emails, LAMBDA e : ~suppressed(e)) \o SelectSeq(emails, pinned)

\* C26: a decision whose id is the id of no fetched message is ignored: the
\* step of triage for it issues no call (no archive, no label lookup or
\* creation, no label application), changes no message and no label, logs
\* nothing, and goes on to the next decision; and the Drafter input, the VIP
\* set and the Watchman input are those that the other decisions give (they
\* are so whenever the run moves to another position, and do not change
\* while it stays at one).
C26_UnknownIdIgnored ==
  [][ /\ ( /\ pc = "applying"
           /\ pending[idx].t = "obj"
           /\ pending[idx].id \notin IdsOf(emails) )
         => /\ calls' = calls
            /\ mailbox' = mailbox
            /\ userLabels' = userLabels
            /\ errorLog' = errorLog
            /\ IF idx < Len(pending)
               THEN pc' = "applying" /\ idx' = idx + 1 /\ pending' = pending
               ELSE pc' = "partition" /\ triageResults' = pending
      /\ IF pc' = pc
         THEN /\ importantEmails' = importantEmails
              /\ vipEmails' = vipEmails
              /\ watchInput' = watchInput
         ELSE UnknownIdsChangeNothing'
    ]_vars

\* The Drafter has gone through the whole snapshot after triage returned
\* an archive decision and a vip decision that name no fetched message.
C26_Witness ==
  /\ pc = "watch"
  /\ emails # <<>>
  /\ triageResults = <<Decision(0, "archive", ""), Decision(0, "vip", "")>>
  /\ importantEmails = emails
  /\ watchInput = emails

\* Triage put the VIP label on message id in this run.
LabelledVip(id) ==
  \E k \in CallsOf("triage", {"label"}) :
    calls[k].id = id /\ calls[k].ok /\ "VIP" \in mailbox[id].labels

\* The Drafter made its model call for message id.
OfferedToModel(id) == \E k \in CallsOf("drafter", {"llm"}) : calls[k].id = id

\* C27, as stated: once the Drafter is through, a fetched message that
\* triage labelled VIP in this run has been offered to the drafting model
\* unless its snapshot carried SENT or DRAFT.
C27_VipStillOffered ==
  PastDraft =>
    \A i \in DOMAIN emails :
      (LabelledVip(emails[i].id) /\ emails[i].labels \cap {"SENT", "DRAFT"} = {})
        => OfferedToModel(emails[i].id)

\* C27, amended: the snapshot is not changed by triage: whatever triage did
\* to the stored messages, every snapshot still has the labels it was
\* fetched with (INBOX among them, no user label), and the Drafter's label
\* check reads these; once the Drafter is through, a message that triage
\* labelled VIP in this run has been offered to the drafting model exactly
\* when its snapshot carried neither SENT nor DRAFT and no other rule kept
\* it from the model: it is no Jira or Google-Docs notification, it has no
\* archive or label decision, and it is among the first 20 of the Drafter
\* input.
C27_SnapshotUnchanged ==
  /\ \A i \in DOMAIN emails :
       /\ "INBOX" \in emails[i].labels
       /\ emails[i].labels \subseteq {"INBOX", "SENT", "DRAFT"}
       /\ emails[i].threadId = mailbox[emails[i].id].threadId
  /\ \A i \in DOMAIN importantEmails : importantEmails[i] \in Range(emails)
  /\ PastDraft =>
       \A i \in DOMAIN emails :
         LabelledVip(emails[i].id) =>
           ( OfferedToModel(emails[i].id)
             <=> /\ emails[i].labels \cap {"SENT", "DRAFT"} = {}
                 /\ emails[i].kind \notin {"jira", "gdoc"}
                 /\ ~Suppressed(emails[i].id)
                 /\ PosIn(importantEmails, emails[i].id) \in 1..20 )

\* The Drafter is through: triage archived one message and labelled another
\* VIP, the snapshots of both are as fetched, and the VIP message was
\* offered to the drafting model.
C27_Witness ==
  /\ pc = "watch"
  /\ Len(emails) = 2
  /\ "INBOX" \notin mailbox[emails[1].id].labels
  /\ LabelledVip(emails[2].id)
  /\ OfferedToModel(emails[2].id)

\* C28: no draft, by the Drafter or by a draft-request of the Watchman, is
\* created in reply to a message that triage archived or put a noise label
\* on earlier in the same run, whatever decision list the model returned.
C28_NoDraftForSuppressed ==
  \A i \in DOMAIN drafts :
    drafts[i].run = runNo =>
      ~\E k \in CallsOf("triage", {"archive", "label"}) :
         /\ calls[k].id = drafts[i].replyTo
         /\ calls[k].ok
         /\ \/ calls[k].op = "archive"
            \/ "Low Priority" \in mailbox[drafts[i].replyTo].labels

\* C29: the load of a run is bounded.  At most 50 messages, all among the
\* first 50 listed, have their content fetched (once each), and at most 50
\* are sent to classification; the run makes at most 22 model calls: at most
\* 1 by triage, at most 20 by the Drafter (one per message), at most 1 by
\* the Watchman; a call of generateWithSystem makes at most 6 attempts; and
\* nothing is retried: in a step of the run a failed call is never followed
\* by a call of the same operation on the same message, the Drafter asks the
\* model and creates a draft at most once per message, and the listing and
\* the calendar fetch are made at most once.
C29_BoundedLoad ==
  [][ LET issued == SubSeq(calls', Len(calls) + 1, Len(calls'))
          Of(by, ops) == {k \in DOMAIN calls' : calls'[k].by = by /\ calls'[k].op \in ops}
          Count(by, ops) == Cardinality(Of(by, ops))
          Once(by, op) == Cardinality({calls'[k].id : k \in Of(by, {op})}) = Count(by, {op})
      IN /\ Len(emails') <= 50
         /\ Count("fetch", {"get"}) <= 50
         /\ \A k \in DOMAIN calls' :
              (calls'[k].by = "fetch" /\ calls'[k].op = "get") => calls'[k].id \in 1..50
         /\ Once("fetch", "get")
         /\ Count("triage", {"llm"}) <= 1
         /\ Count("drafter", {"llm"}) <= 20
         /\ Count("watchman", {"llm"}) <= 1
         /\ Cardinality({k \in DOMAIN calls' : calls'[k].op = "llm"}) <= 22
         /\ Once("drafter", "llm")
         /\ Once("drafter", "draft.create")
         /\ Count("fetch", {"list"}) <= 1
         /\ Count("watchman", {"calendar"}) <= 1
         /\ Len(gemini'.attempts) <= 6
         /\ Len(calls') >= Len(calls) =>
              \A i, j \in DOMAIN issued :
                (i < j /\ ~issued[i].ok) =>
                  ~(issued[j].op = issued[i].op /\ issued[j].id = issued[i].id)
    ]_vars

\* A finished run over a listing of 51 messages: 50 were fetched, 22 model
\* calls were made, and a draft creation failed.
C29_Witness ==
  /\ pc = "done"
  /\ Len(mailbox) = 51
  /\ Len(emails) = 50
  /\ Cardinality({k \in DOMAIN calls : calls[k].op = "llm"}) = 22
  /\ Cardinality(CallsOf("drafter", {"llm"})) = 20
  /\ \E k \in CallsOf("drafter", {"draft.create"}) : ~calls[k].ok

\* Two label names are equal ignoring case.
SameIgnoringCase(a, b) ==
  \/ a = b
  \/ {a, b} = {"VIP", "vip"}
  \/ {a, b} = {"Low Priority", "low priority"}

\* The name that the label step of a decision asks getOrCreateLabel for.
AskedLabel(d) ==
  IF d.action = "vip" THEN "VIP" ELSE IF d.labelName = "" THEN "Low Priority" ELSE d.labelName

\* C30: getOrCreateLabel is get-or-create.  A step of triage creates at most
\* one label; it issues a label creation only when no existing label has
\* the asked name ignoring case, and the label created has the asked name;
\* when such a label exists the step creates nothing and applies the
\* existing label; so the labels never hold two names that are equal
\* ignoring case, and a second call with a name creates nothing.
C30_GetOrCreateLabel ==
  [][ (pc = "applying" /\ pending[idx].t = "obj"
         /\ pending[idx].id \in IdsOf(emails)
         /\ pending[idx].action \in {"label", "vip"}) =>
        LET asked == AskedLabel(pending[idx])
            issued == SubSeq(calls', Len(calls) + 1, Len(calls'))
            creates == {k \in DOMAIN issued : issued[k].op = "labels.create"}
            exists == \E i \in DOMAIN userLabels : SameIgnoringCase(userLabels[i], asked)
        IN /\ Cardinality(creates) <= 1
           /\ exists => /\ creates = {}
                         /\ userLabels' = userLabels
                         /\ \A k \in DOMAIN issued :
                              (issued[k].op = "label" /\ issued[k].ok) =>
                                \E i \in DOMAIN userLabels :
                                  /\ SameIgnoringCase(userLabels[i], asked)
                                  /\ mailbox'[pending[idx].id].labels =
                                       mailbox[pending[idx].id].labels \cup {userLabels[i]}
           /\ userLabels' # userLabels =>
                /\ creates # {}
                /\ userLabels' = Append(userLabels, asked)
           /\ \A i, j \in DOMAIN userLabels' :
                i # j => ~SameIgnoringCase(userLabels'[i], userLabels'[j])
    ]_vars

\* Triage has gone through a label decision whose name the user had in
\* lower case and a vip decision for the same message: the existing label
\* was applied, and the only label created is VIP.
C30_Witness ==
  /\ pc = "partition"
  /\ userLabels = <<"low priority", "VIP">>
  /\ Len(emails) = 1
  /\ {"low priority", "VIP"} \subseteq mailbox[emails[1].id].labels
  /\ Cardinality(CallsOf("triage", {"labels.create"})) = 1
  /\ Cardinality(CallsOf("triage", {"labels.list"})) = 2

====
